---------------------------- MODULE Spec2Model ----------------------------
(***************************************************************************)
(* cmake-node: the delay-load notify hook of win_delay_load_hook.c and     *)
(* win_delay_load_hook.cc.                                                 *)
(*                                                                         *)
(* Two state machines share this module.                                   *)
(*   SpecBuild  the preprocessor's pass over either translation unit, for  *)
(*              every set of predefined macros: what the unit contributes  *)
(*              to the object file.                                        *)
(*   Spec       a process whose DLL was built with the hook (MSVC): the    *)
(*              delay-load helper's threads call load_exe_hook, which runs *)
(*              statement by statement, and consume its result.            *)
(* Strings are tuples of character codes; the terminating NUL is implicit. *)
(***************************************************************************)
EXTENDS Integers, Sequences, FiniteSets, TLC

VARIABLES
    variant,             \* which file was compiled: "c" or "cc"
    macros,              \* the preprocessor's set of defined macros
    ppPos,               \* index of the next directive/declaration of the unit
    condStack,           \* open #if groups, TRUE when the group is taken
    emitted,             \* what the unit has contributed so far
    pfnDliNotifyHook2,   \* the registered notify hook (__pfnDliNotifyHook2)
    imageBase,           \* handle of the process image
    lookupFails,         \* whether GetModuleHandle(NULL) fails in this process
    pc,                  \* per thread: position in the helper / the hook
    event,               \* per thread: the hook's argument `event`
    info,                \* per thread: the DelayLoadInfo the helper passes
    m,                   \* per thread: the hook's local `m` (its stack slot)
    ret,                 \* per thread: the value the hook returned
    outcome              \* per thread: how the helper resolved the library

buildVars == <<variant, macros, ppPos, condStack, emitted>>
procVars  == <<pfnDliNotifyHook2, imageBase, lookupFails>>
hookVars  == <<pc, event, info, m, ret, outcome>>
vars      == <<variant, macros, ppPos, condStack, emitted,
               pfnDliNotifyHook2, imageBase, lookupFails,
               pc, event, info, m, ret, outcome>>

---------------------------------------------------------------------------
(* Bounds of the model. *)

\* Longest requested library name the helper passes (characters).
MaxNameLen == 2

\* Character codes that occur in names: 'A', 'a', 'b'.
Alphabet == {65, 97, 98}

\* The delay-load helper's threads.
Threads == {"t1", "t2"}

\* Module handles of the address space other than NULL.
Handles == {1, 2}

\* Every name of at most MaxNameLen characters.
Names == UNION {[1..n -> Alphabet] : n \in 0..MaxNameLen}

---------------------------------------------------------------------------
(* Platform values the source uses. *)

NULL == 0

\* delayimp.h: dliStartProcessing = 0, dliNotePreLoadLibrary = 1,
\* dliNotePreGetProcAddress = 2, ... dliNoteEndProcessing = 5
dliNotePreLoadLibrary == 1

\* Event codes the helper passes to the hook: dliStartProcessing,
\* dliNotePreLoadLibrary, dliNotePreGetProcAddress.
Events == {0, 1, 2}

\* -DNODE_HOST_BINARY="a" : the host executable's original file name.
NODE_HOST_BINARY == <<97>>

---------------------------------------------------------------------------
(* The C runtime's _stricmp: both strings are compared character by        *)
(* character after tolower, up to and including the terminating NUL; the   *)
(* result is the difference of the first pair that differs.                *)

tolower(c) == IF c >= 65 /\ c <= 90 THEN c + 32 ELSE c

CharAt(s, i) == IF i <= Len(s) THEN s[i] ELSE 0

RECURSIVE stricmp_from(_, _, _)
stricmp_from(s1, s2, i) ==
    LET c1 == tolower(CharAt(s1, i))
        c2 == tolower(CharAt(s2, i))
    IN  IF c1 # c2 THEN c1 - c2
        ELSE IF c1 = 0 THEN 0
        ELSE stricmp_from(s1, s2, i + 1)

_stricmp(s1, s2) == stricmp_from(s1, s2, 1)

\* GetModuleHandle(NULL): the handle of the file used to create the calling
\* process, or NULL when the call fails.
GetModuleHandle_NULL == IF lookupFails THEN NULL ELSE imageBase

---------------------------------------------------------------------------
(* The translation units, line by line.  A line is a conditional (#if,     *)
(* #ifdef, #ifndef: taken when every macro of `def` is defined and none of *)
(* `undef`), an #endif, a #define, or something the unit contributes when  *)
(* the line is not skipped: an #include, a #pragma, the function           *)
(* load_exe_hook, the variable __pfnDliNotifyHook2.                        *)

Line(n, kind, arg, def, undef) ==
    [line |-> n, kind |-> kind, arg |-> arg, def |-> def, undef |-> undef]

\* win_delay_load_hook.c
TU_c == <<
    Line(25, "if", "", {"_MSC_VER"}, {}),
    Line(27, "pragma", "managed(push, off)", {}, {}),
    Line(29, "if", "", {}, {"WIN32_LEAN_AND_MEAN"}),
    Line(30, "define", "WIN32_LEAN_AND_MEAN", {}, {}),
    Line(31, "endif", "", {}, {}),
    Line(33, "if", "", {}, {"DELAYIMP_INSECURE_WRITABLE_HOOKS"}),
    Line(36, "define", "DELAYIMP_INSECURE_WRITABLE_HOOKS", {}, {}),
    Line(37, "endif", "", {}, {}),
    Line(39, "include", "windows.h", {}, {}),
    Line(40, "include", "delayimp.h", {}, {}),
    Line(41, "include", "string.h", {}, {}),
    Line(43, "pragma", "comment(lib, kernel32.lib)", {}, {}),
    Line(44, "pragma", "comment(lib, delayimp.lib)", {}, {}),
    Line(46, "function", "load_exe_hook", {}, {}),
    Line(61, "variable", "__pfnDliNotifyHook2", {}, {}),
    Line(63, "pragma", "managed(pop)", {}, {}),
    Line(65, "endif", "", {}, {}) >>

\* win_delay_load_hook.cc
TU_cc == <<
    Line(25, "if", "", {"_MSC_VER"}, {"__clang__"}),
    Line(26, "pragma", "managed(push, off)", {}, {}),
    Line(27, "endif", "", {}, {}),
    Line(29, "if", "", {}, {"WIN32_LEAN_AND_MEAN"}),
    Line(30, "define", "WIN32_LEAN_AND_MEAN", {}, {}),
    Line(31, "endif", "", {}, {}),
    Line(33, "include", "windows.h", {}, {}),
    Line(34, "include", "delayimp.h", {}, {}),
    Line(35, "include", "string.h", {}, {}),
    Line(37, "if", "", {}, {"__MINGW32__"}),
    Line(38, "pragma", "comment(lib, kernel32.lib)", {}, {}),
    Line(39, "pragma", "comment(lib, delayimp.lib)", {}, {}),
    Line(40, "endif", "", {}, {}),
    Line(42, "function", "load_exe_hook", {}, {}),
    Line(57, "variable", "__pfnDliNotifyHook2", {}, {}),
    Line(59, "if", "", {"_MSC_VER"}, {"__clang__"}),
    Line(60, "pragma", "managed(pop)", {}, {}),
    Line(61, "endif", "", {}, {}) >>

TU(v) == IF v = "c" THEN TU_c ELSE TU_cc

\* The initializer of __pfnDliNotifyHook2 in either file.
Registration_c  == [symbol |-> "__pfnDliNotifyHook2", value |-> "load_exe_hook"]
Registration_cc == [symbol |-> "__pfnDliNotifyHook2", value |-> "load_exe_hook"]

\* Macros the compiler or the command line may predefine.
Predefinable == {"_MSC_VER", "__clang__", "__MINGW32__",
                 "WIN32_LEAN_AND_MEAN", "DELAYIMP_INSECURE_WRITABLE_HOOKS"}

\* A line is live when every open conditional group is taken.
Live(stack) == \A i \in 1..Len(stack) : stack[i]

Taken(l, defined) == l.def \subseteq defined /\ l.undef \cap defined = {}

AtLine == ppPos <= Len(TU(variant))
CurLine == TU(variant)[ppPos]

\* #if / #ifdef / #ifndef: open a group; inside a skipped group it is skipped.
PPIf ==
    /\ AtLine /\ CurLine.kind = "if"
    /\ condStack' = Append(condStack, Live(condStack) /\ Taken(CurLine, macros))
    /\ ppPos' = ppPos + 1
    /\ UNCHANGED <<variant, macros, emitted, procVars, hookVars>>

\* #endif: close the innermost group.
PPEndif ==
    /\ AtLine /\ CurLine.kind = "endif"
    /\ condStack' = SubSeq(condStack, 1, Len(condStack) - 1)
    /\ ppPos' = ppPos + 1
    /\ UNCHANGED <<variant, macros, emitted, procVars, hookVars>>

\* #define NAME
PPDefine ==
    /\ AtLine /\ CurLine.kind = "define"
    /\ macros' = IF Live(condStack) THEN macros \cup {CurLine.arg} ELSE macros
    /\ ppPos' = ppPos + 1
    /\ UNCHANGED <<variant, condStack, emitted, procVars, hookVars>>

\* #include, #pragma, a definition: contributed when the line is live.
PPEmit ==
    /\ AtLine /\ CurLine.kind \in {"include", "pragma", "function", "variable"}
    /\ emitted' = IF Live(condStack)
                  THEN emitted \cup {<<CurLine.kind, CurLine.arg>>}
                  ELSE emitted
    /\ ppPos' = ppPos + 1
    /\ UNCHANGED <<variant, macros, condStack, procVars, hookVars>>

\* The link: the DLL carries the hook its unit defines.
Link ==
    /\ ~AtLine
    /\ pfnDliNotifyHook2 = "none"
    /\ <<"variable", "__pfnDliNotifyHook2">> \in emitted
    /\ pfnDliNotifyHook2' = "load_exe_hook"
    /\ UNCHANGED <<buildVars, imageBase, lookupFails, hookVars>>

\* The whole pass as a function of the predefined macros: the macros defined
\* and the contributions made at the end of the unit.
RECURSIVE Preprocess(_, _, _, _, _)
Preprocess(v, pos, defined, stack, out) ==
    IF pos > Len(TU(v)) THEN [macros |-> defined, emitted |-> out]
    ELSE LET l == TU(v)[pos]
         IN  CASE l.kind = "if" ->
                    Preprocess(v, pos + 1, defined,
                               Append(stack, Live(stack) /\ Taken(l, defined)), out)
               [] l.kind = "endif" ->
                    Preprocess(v, pos + 1, defined,
                               SubSeq(stack, 1, Len(stack) - 1), out)
               [] l.kind = "define" ->
                    Preprocess(v, pos + 1,
                               IF Live(stack) THEN defined \cup {l.arg} ELSE defined,
                               stack, out)
               [] OTHER ->
                    Preprocess(v, pos + 1, defined, stack,
                               IF Live(stack) THEN out \cup {<<l.kind, l.arg>>} ELSE out)

Build(v, defined) == Preprocess(v, 1, defined, <<>>, {})

\* What cl.exe predefines.
MSVC == {"_MSC_VER"}

---------------------------------------------------------------------------
(* load_exe_hook, statement by statement, in either file.                  *)

\* strcmp: the comparison without the case folding.
strcmp(s1, s2) == IF s1 = s2 THEN 0 ELSE 1

\* _strnicmp over the host name's length: a prefix comparison.
RECURSIVE strnicmp_from(_, _, _, _)
strnicmp_from(s1, s2, i, n) ==
    LET c1 == tolower(CharAt(s1, i))
        c2 == tolower(CharAt(s2, i))
    IN  IF i > n THEN 0
        ELSE IF c1 # c2 THEN c1 - c2
        ELSE IF c1 = 0 THEN 0
        ELSE strnicmp_from(s1, s2, i + 1, n)

\* Variant of the event test with the comparison inverted.
EventRejected_inverted(ev) == ev = dliNotePreLoadLibrary

\* Variant of the name test that compares case-sensitively.
NameRejected_strcmp(szDll) == strcmp(szDll, NODE_HOST_BINARY) # 0

\* Variant of the name test that compares only the host name's length.
NameRejected_prefix(szDll) ==
    strnicmp_from(szDll, NODE_HOST_BINARY, 1, Len(NODE_HOST_BINARY)) # 0

\* win_delay_load_hook.c:50   if (event != dliNotePreLoadLibrary) return NULL;
EventRejected_c(ev) == ev # dliNotePreLoadLibrary

\* win_delay_load_hook.c:53   if (_stricmp(info->szDll, NODE_HOST_BINARY) != 0)
NameRejected_c(szDll) == _stricmp(szDll, NODE_HOST_BINARY) # 0

\* win_delay_load_hook.c:46-59, the call as a whole
load_exe_hook_c(ev, szDll) ==
    IF EventRejected_c(ev) THEN NULL
    ELSE IF NameRejected_c(szDll) THEN NULL
    ELSE GetModuleHandle_NULL

\* win_delay_load_hook.cc:46
EventRejected_cc(ev) == ev # dliNotePreLoadLibrary

\* win_delay_load_hook.cc:49
NameRejected_cc(szDll) == _stricmp(szDll, NODE_HOST_BINARY) # 0

\* win_delay_load_hook.cc:42-55, the call as a whole
load_exe_hook_cc(ev, szDll) ==
    IF EventRejected_cc(ev) THEN NULL
    ELSE IF NameRejected_cc(szDll) THEN NULL
    ELSE GetModuleHandle_NULL

EventRejected(ev) ==
    IF variant = "c" THEN EventRejected_c(ev) ELSE EventRejected_cc(ev)

NameRejected(szDll) ==
    IF variant = "c" THEN NameRejected_c(szDll) ELSE NameRejected_cc(szDll)

\* The hook of the variant that was compiled, run alone.
load_exe_hook(ev, szDll) ==
    IF variant = "c" THEN load_exe_hook_c(ev, szDll) ELSE load_exe_hook_cc(ev, szDll)

\* Files the loader finds on its search path.  The host executable was
\* renamed: no file there carries its original name.
DiskFiles == {<<98>>}

OnDisk(name) == \E f \in DiskFiles : _stricmp(name, f) = 0

\* What the import's caller gets from the helper: the library and how it was
\* resolved: "hook" (the hook's handle), "disk" (LoadLibrary found the file),
\* "load_error" (LoadLibrary failed), or no load at all.
Loaded(how, szDll) == [how |-> how, szDll |-> szDll]
NoLoad == Loaded("none", <<>>)

InHook == {"check_event", "compare", "lookup", "return_m"}

\* The delay-load helper notifies the registered hook: the call pushes
\* load_exe_hook's frame; `m` is not initialised and keeps what its stack
\* slot held.
Notify(t) ==
    /\ pc[t] = "idle"
    /\ pfnDliNotifyHook2 = "load_exe_hook"
    /\ \E ev \in Events, name \in Names :
          /\ event' = [event EXCEPT ![t] = ev]
          /\ info' = [info EXCEPT ![t] = [szDll |-> name]]
    /\ pc' = [pc EXCEPT ![t] = "check_event"]
    /\ ret' = [ret EXCEPT ![t] = NULL]
    /\ UNCHANGED <<buildVars, procVars, m, outcome>>

\* if (event != dliNotePreLoadLibrary) return NULL;
CheckEvent(t) ==
    /\ pc[t] = "check_event"
    /\ IF EventRejected(event[t])
       THEN /\ ret' = [ret EXCEPT ![t] = NULL]
            /\ pc' = [pc EXCEPT ![t] = "returned"]
       ELSE /\ pc' = [pc EXCEPT ![t] = "compare"]
            /\ UNCHANGED ret
    /\ UNCHANGED <<buildVars, procVars, event, info, m, outcome>>

\* Variant of the name test with a single exit: the mismatch returns `m`,
\* which nothing has assigned yet.
CompareName_stale(t) ==
    /\ pc[t] = "compare"
    /\ IF NameRejected(info[t].szDll)
       THEN /\ ret' = [ret EXCEPT ![t] = m[t]]
            /\ pc' = [pc EXCEPT ![t] = "returned"]
       ELSE /\ pc' = [pc EXCEPT ![t] = "lookup"]
            /\ UNCHANGED ret
    /\ UNCHANGED <<buildVars, procVars, event, info, m, outcome>>

\* Variant of the name test that folds the requested name in place (_strlwr)
\* before comparing.
CompareName_inplace(t) ==
    /\ pc[t] = "compare"
    /\ info' = [info EXCEPT ![t].szDll =
                   [i \in 1..Len(info[t].szDll) |-> tolower(info[t].szDll[i])]]
    /\ IF NameRejected(info[t].szDll)
       THEN /\ ret' = [ret EXCEPT ![t] = NULL]
            /\ pc' = [pc EXCEPT ![t] = "returned"]
       ELSE /\ pc' = [pc EXCEPT ![t] = "lookup"]
            /\ UNCHANGED ret
    /\ UNCHANGED <<buildVars, procVars, event, m, outcome>>

\* if (_stricmp(info->szDll, NODE_HOST_BINARY) != 0) return NULL;
CompareName(t) ==
    /\ pc[t] = "compare"
    /\ IF NameRejected(info[t].szDll)
       THEN /\ ret' = [ret EXCEPT ![t] = NULL]
            /\ pc' = [pc EXCEPT ![t] = "returned"]
       ELSE /\ pc' = [pc EXCEPT ![t] = "lookup"]
            /\ UNCHANGED ret
    /\ UNCHANGED <<buildVars, procVars, event, info, m, outcome>>

\* Variant of the lookup by name, GetModuleHandle(info->szDll): the renamed
\* host has no module of the requested name.
Lookup_byName(t) ==
    /\ pc[t] = "lookup"
    /\ m' = [m EXCEPT ![t] = NULL]
    /\ pc' = [pc EXCEPT ![t] = "return_m"]
    /\ UNCHANGED <<buildVars, procVars, event, info, ret, outcome>>

\* Variant of the lookup under a lock held until the return.
Lookup_locked(t) ==
    /\ pc[t] = "lookup"
    /\ \A u \in Threads \ {t} : pc[u] # "return_m"
    /\ m' = [m EXCEPT ![t] = GetModuleHandle_NULL]
    /\ pc' = [pc EXCEPT ![t] = "return_m"]
    /\ UNCHANGED <<buildVars, procVars, event, info, ret, outcome>>

\* m = GetModuleHandle(NULL);
Lookup(t) ==
    /\ pc[t] = "lookup"
    /\ m' = [m EXCEPT ![t] = GetModuleHandle_NULL]
    /\ pc' = [pc EXCEPT ![t] = "return_m"]
    /\ UNCHANGED <<buildVars, procVars, event, info, ret, outcome>>

\* Variant of the return that looks the handle up again while it is NULL.
ReturnM_retry(t) ==
    /\ pc[t] = "return_m"
    /\ IF m[t] = NULL
       THEN /\ pc' = [pc EXCEPT ![t] = "lookup"]
            /\ UNCHANGED ret
       ELSE /\ ret' = [ret EXCEPT ![t] = m[t]]
            /\ pc' = [pc EXCEPT ![t] = "returned"]
    /\ UNCHANGED <<buildVars, procVars, event, info, m, outcome>>

\* return (FARPROC)m;
ReturnM(t) ==
    /\ pc[t] = "return_m"
    /\ ret' = [ret EXCEPT ![t] = m[t]]
    /\ pc' = [pc EXCEPT ![t] = "returned"]
    /\ UNCHANGED <<buildVars, procVars, event, info, m, outcome>>

\* The helper takes the hook's answer and returns to the import's caller;
\* its frame, with the DelayLoadInfo, is gone.  To a pre-load notification a
\* non-null answer is the module; on NULL the helper calls LoadLibrary, which
\* searches the disk and fails when no file has the name.  The answer to the
\* other notifications that reach this hook is NULL and changes nothing.
Resume(t) ==
    /\ pc[t] = "returned"
    /\ outcome' = [outcome EXCEPT ![t] =
          IF event[t] # dliNotePreLoadLibrary THEN NoLoad
          ELSE IF ret[t] # NULL THEN Loaded("hook", info[t].szDll)
          ELSE IF OnDisk(info[t].szDll) THEN Loaded("disk", info[t].szDll)
          ELSE Loaded("load_error", info[t].szDll)]
    /\ pc' = [pc EXCEPT ![t] = "done"]
    /\ event' = [event EXCEPT ![t] = 0]
    /\ info' = [info EXCEPT ![t] = [szDll |-> <<>>]]
    /\ ret' = [ret EXCEPT ![t] = NULL]
    /\ UNCHANGED <<buildVars, procVars, m>>

\* The helper returns to the import's caller, which goes on with the module
\* (or unwinds with the loader's exception).
HelperReturn(t) ==
    /\ pc[t] = "done"
    /\ pc' = [pc EXCEPT ![t] = "idle"]
    /\ outcome' = [outcome EXCEPT ![t] = NoLoad]
    /\ UNCHANGED <<buildVars, procVars, event, info, m, ret>>

---------------------------------------------------------------------------
(* The specifications. *)

\* The build: either file under every set of predefined macros.
InitBuild ==
    /\ variant \in {"c", "cc"}
    /\ macros \in SUBSET Predefinable
    /\ ppPos = 1
    /\ condStack = <<>>
    /\ emitted = {}
    /\ pfnDliNotifyHook2 = "none"
    /\ imageBase = 1
    /\ lookupFails = FALSE
    /\ pc = [t \in Threads |-> "idle"]
    /\ event = [t \in Threads |-> 0]
    /\ info = [t \in Threads |-> [szDll |-> <<>>]]
    /\ m = [t \in Threads |-> NULL]
    /\ ret = [t \in Threads |-> NULL]
    /\ outcome = [t \in Threads |-> NoLoad]

NextBuild == PPIf \/ PPEndif \/ PPDefine \/ PPEmit \/ Link

SpecBuild == InitBuild /\ [][NextBuild]_vars

\* The process: a DLL built from either file by MSVC, loaded into the
\* renamed host.
Init ==
    /\ variant \in {"c", "cc"}
    /\ macros = Build(variant, MSVC).macros
    /\ ppPos = Len(TU(variant)) + 1
    /\ condStack = <<>>
    /\ emitted = Build(variant, MSVC).emitted
    /\ pfnDliNotifyHook2 =
          IF <<"variable", "__pfnDliNotifyHook2">> \in emitted
          THEN "load_exe_hook" ELSE "none"
    /\ imageBase \in Handles
    /\ lookupFails \in BOOLEAN
    /\ pc = [t \in Threads |-> "idle"]
    /\ event = [t \in Threads |-> 0]
    /\ info = [t \in Threads |-> [szDll |-> <<>>]]
    /\ m = [t \in Threads |-> NULL]
    /\ ret = [t \in Threads |-> NULL]
    /\ outcome = [t \in Threads |-> NoLoad]

HookStep(t) == CheckEvent(t) \/ CompareName(t) \/ Lookup(t) \/ ReturnM(t)

Next == \E t \in Threads : Notify(t) \/ HookStep(t) \/ Resume(t) \/ HelperReturn(t)

Spec == Init /\ [][Next]_vars

---------------------------------------------------------------------------
(* The claims. *)

ToUpper(c) == IF c >= 97 /\ c <= 122 THEN c - 32 ELSE c

\* Equality of file names, letters compared without regard to case.
SameNameIgnoringCase(a, b) ==
    /\ Len(a) = Len(b)
    /\ \A i \in 1..Len(a) : ToUpper(a[i]) = ToUpper(b[i])

IsHostName(name) == SameNameIgnoringCase(name, NODE_HOST_BINARY)

\* Thread t's call of the hook has returned and the helper holds the answer.
Returned(t) == pc[t] = "returned"

\* The helper's step that takes thread t's answer.
Resumes(t) == pc[t] = "returned" /\ pc'[t] = "done"

\* C1, as stated: a pre-load notification for a name equal to
\* NODE_HOST_BINARY without regard to case returns a non-null handle, the
\* process image handle.
C1_AlwaysImageHandle ==
    \A t \in Threads :
        (Returned(t) /\ event[t] = dliNotePreLoadLibrary /\ IsHostName(info[t].szDll))
            => (ret[t] # NULL /\ ret[t] = imageBase)

\* C1, amended: a pre-load notification for a name equal to NODE_HOST_BINARY
\* without regard to case returns exactly what GetModuleHandle(NULL) gave:
\* the process image handle, non-null, whenever that lookup succeeds, and
\* NULL when it fails.
C1_ReturnsLookupResult ==
    \A t \in Threads :
        (Returned(t) /\ event[t] = dliNotePreLoadLibrary /\ IsHostName(info[t].szDll))
            => /\ ret[t] = GetModuleHandle_NULL
               /\ ~lookupFails => (ret[t] = imageBase /\ ret[t] # NULL)
               /\ lookupFails => ret[t] = NULL

C1_Witness ==
    \E t \in Threads :
        /\ Returned(t) /\ event[t] = dliNotePreLoadLibrary
        /\ info[t].szDll = <<65>> /\ info[t].szDll # NODE_HOST_BINARY
        /\ ~lookupFails /\ ret[t] = imageBase /\ imageBase = 2

\* C2: a pre-load notification for a name that does not equal
\* NODE_HOST_BINARY without regard to case returns NULL ("no opinion").
C2_OtherNameNoOpinion ==
    \A t \in Threads :
        (Returned(t) /\ event[t] = dliNotePreLoadLibrary /\ ~IsHostName(info[t].szDll))
            => ret[t] = NULL

C2_Witness ==
    \E t \in Threads :
        /\ Returned(t) /\ event[t] = dliNotePreLoadLibrary
        /\ info[t].szDll = <<97, 98>> /\ ~lookupFails /\ m[t] # NULL
        /\ ret[t] = NULL

\* C3: every notification other than the pre-load one returns NULL whatever
\* the descriptor holds, and the hook gets to the name comparison only for a
\* pre-load notification.
C3_OtherEventNoOpinion ==
    \A t \in Threads :
        /\ (Returned(t) /\ event[t] # dliNotePreLoadLibrary) => ret[t] = NULL
        /\ pc[t] \in {"compare", "lookup", "return_m"}
               => event[t] = dliNotePreLoadLibrary

C3_Witness ==
    \E t \in Threads :
        /\ Returned(t) /\ event[t] = 2 /\ event[t] # dliNotePreLoadLibrary
        /\ IsHostName(info[t].szDll) /\ ~lookupFails
        /\ ret[t] = NULL

\* C4, as stated: whenever the helper has resolved the host's original name
\* for a DLL that carries the hook, it did so with the handle the pre-load
\* notification returned and the load succeeded; it never went to the disk
\* for that name.
C4_NeverOnDisk ==
    \A t \in Threads :
        (pc[t] = "done" /\ outcome[t].how # "none" /\ IsHostName(outcome[t].szDll))
            => outcome[t].how = "hook"

\* C4, amended: the same whenever GetModuleHandle(NULL) succeeds.
C4_NoDiskWhenLookupSucceeds ==
    \A t \in Threads :
        (pc[t] = "done" /\ outcome[t].how # "none" /\ IsHostName(outcome[t].szDll)
                        /\ ~lookupFails)
            => outcome[t].how = "hook"

C4_Witness ==
    \E t \in Threads :
        /\ pc[t] = "done" /\ outcome[t] = Loaded("hook", <<65>>)
        /\ pfnDliNotifyHook2 = "load_exe_hook" /\ ~lookupFails

\* C5: when GetModuleHandle(NULL) fails on a matching pre-load notification
\* the hook looks up once, returns NULL, and the helper falls back to the
\* disk, where the load of the renamed host's original name fails with the
\* loader's own error.
C5_LookupFailureFallsBack ==
    [][\A t \in Threads :
          lookupFails =>
             /\ (pc[t] = "lookup" /\ pc'[t] # pc[t])
                   => (pc'[t] = "return_m" /\ m'[t] = NULL)
             /\ (pc[t] = "return_m" /\ pc'[t] # pc[t])
                   => (pc'[t] = "returned" /\ ret'[t] = NULL)
             /\ (Resumes(t) /\ event[t] = dliNotePreLoadLibrary
                            /\ IsHostName(info[t].szDll))
                   => (ret[t] = NULL
                       /\ outcome'[t] = Loaded("load_error", info[t].szDll))]_vars

C5_Witness ==
    \E t \in Threads :
        /\ lookupFails /\ pc[t] = "done"
        /\ outcome[t] = Loaded("load_error", <<65>>)

\* C6: two calls with the same event code and the same requested name return
\* the same value, whatever was called before either of them.
C6_SameInputsSameResult ==
    \A t, u \in Threads :
        (Returned(t) /\ Returned(u) /\ event[t] = event[u] /\ info[t] = info[u])
            => ret[t] = ret[u]

C6_Witness ==
    \E t, u \in Threads :
        /\ t # u /\ Returned(t) /\ Returned(u)
        /\ event[t] = event[u] /\ info[t] = info[u]
        /\ m[t] # m[u]
        /\ ret[t] = ret[u]

\* C7: a step of load_exe_hook changes nothing but the hook's own position,
\* local and return value: the descriptor, the event, the registered hook,
\* the process and every other thread are left as they were.
C7_HookMutatesNothing ==
    [][\A t \in Threads :
          (pc[t] \in InHook /\ pc'[t] # pc[t])
              => /\ info' = info /\ event' = event /\ outcome' = outcome
                 /\ pfnDliNotifyHook2' = pfnDliNotifyHook2
                 /\ imageBase' = imageBase /\ lookupFails' = lookupFails
                 /\ UNCHANGED buildVars
                 /\ \A u \in Threads \ {t} :
                        pc'[u] = pc[u] /\ m'[u] = m[u] /\ ret'[u] = ret[u]]_vars

C7_Witness ==
    \E t \in Threads :
        /\ Returned(t) /\ ret[t] # NULL
        /\ info[t].szDll = <<65>>
        /\ pfnDliNotifyHook2 = "load_exe_hook"

\* C8: with the threads interleaved in every way, each call returns what the
\* hook returns run alone, and a thread inside the hook can always take its
\* next step, whatever the other threads are doing.
C8_ThreadSafe ==
    \A t \in Threads :
        /\ Returned(t) => ret[t] = load_exe_hook(event[t], info[t].szDll)
        /\ pc[t] \in InHook => ENABLED HookStep(t)

C8_Witness ==
    \E t, u \in Threads :
        /\ t # u /\ pc[t] = "lookup" /\ pc[u] = "return_m"

\* C9: on a target that is not Windows (neither _MSC_VER nor __MINGW32__ is
\* defined) either translation unit contributes nothing: no header, no
\* load_exe_hook, no __pfnDliNotifyHook2.
C9_NoOpOffWindows ==
    (macros \cap {"_MSC_VER", "__MINGW32__"} = {})
        => (emitted = {} /\ pfnDliNotifyHook2 = "none")

\* C10: the two files' load_exe_hook return the same value for every event
\* code, requested name and process image handle, and both files register
\* that function under the symbol __pfnDliNotifyHook2.
C10_VariantsEquivalent ==
    /\ \A t \in Threads :
          pc[t] \in InHook \cup {"returned"}
              => load_exe_hook_c(event[t], info[t].szDll)
                     = load_exe_hook_cc(event[t], info[t].szDll)
    /\ Registration_c = Registration_cc
    /\ pfnDliNotifyHook2 = Registration_c.value
    /\ pfnDliNotifyHook2 = Registration_cc.value

C10_Witness ==
    \E t \in Threads :
        /\ pc[t] = "compare" /\ info[t].szDll = <<65>>
        /\ ~lookupFails /\ variant = "cc"
        /\ load_exe_hook_c(event[t], info[t].szDll) = imageBase

====
